---- MODULE Spec2Model ----
(***************************************************************************)
(* TextTrainingForge: story text -> snippets -> (instruction, input,       *)
(* output) training records.  Two programs share the pipeline:             *)
(*   "utils"/"app" : src/utils.py driven by the Streamlit UI src/app.py    *)
(*   "cli"         : src/attached_assets/gen_training.py                   *)
(* Strings are sequences of one-character strings, so that split, strip    *)
(* and concatenation are computed, not assumed.                            *)
(***************************************************************************)
EXTENDS Integers, Sequences, FiniteSets, TLC

VARIABLES
    impl,          \* which program runs: "utils", "app" or "cli"
    pc,            \* position of the driver
    story_text,    \* the raw text handed to segmentation
    split_token,   \* the delimiter
    snippets,      \* outcome of segmentation: [ok, val, exc]
    response,      \* what the endpoint answers to one completion request
    completion,    \* outcome of one stream_llm_response call: [ok, val, exc]
    instruction_prompt,  \* the instruction prompt template
    input_prompt,        \* the input prompt template
    prompts,       \* outcomes of the two prompt builders
    validation,    \* outcome of validate_prompts
    max_workers,   \* the configured worker count
    queue,         \* indices of the snippets waiting for a worker, in order
    submitted,     \* how many snippets the CLI has submitted to its pool
    threads,       \* what each worker is running
    futures,       \* per snippet: state and outcome of its process_snippet
    calls,         \* per snippet: the completion requests sent, in order
    training_data, \* the records collected (UI) or written (CLI)
    reported,      \* the per-snippet failures reported
    probe_response,  \* what the endpoint answers to the connectivity probe
    probe_result     \* outcome of test_api_connection

segVars    == <<story_text, split_token, snippets>>
streamVars == <<response, completion>>
tmplVars   == <<instruction_prompt, input_prompt>>
promptVars == <<prompts, validation>>
runVars    == <<max_workers, queue, submitted, threads, futures, calls,
                training_data, reported>>
probeVars  == <<probe_response, probe_result>>

vars == <<impl, pc, segVars, streamVars, probeVars, tmplVars, promptVars, runVars, probeVars>>

(***************************************************************************)
(* Bounds                                                                  *)
(***************************************************************************)
MaxTextLen == 4
MaxLines == 3
MaxTemplateLen == 2
MaxSnippets == 2
MaxWorkers == 2

(***************************************************************************)
(* Strings                                                                 *)
(***************************************************************************)
\* str.strip() with no argument removes whitespace; the model's alphabet has
\* the blank and the newline.
Whitespace == {" ", "\n"}

Chars == {"a", " ", "<", ">"}

RECURSIVE SeqsUpTo(_, _)
SeqsUpTo(S, n) ==
    IF n = 0 THEN {<<>>}
    ELSE LET shorter == SeqsUpTo(S, n - 1)
         IN  shorter \cup {Append(s, c) : s \in shorter, c \in S}

IsBlank(s) == \A k \in 1..Len(s) : s[k] \in Whitespace

\* Python: s.strip()
strip(s) ==
    IF IsBlank(s) THEN <<>>
    ELSE LET first == CHOOSE i \in 1..Len(s) :
                          /\ s[i] \notin Whitespace
                          /\ \A k \in 1..(i - 1) : s[k] \in Whitespace
             last  == CHOOSE j \in 1..Len(s) :
                          /\ s[j] \notin Whitespace
                          /\ \A k \in (j + 1)..Len(s) : s[k] \in Whitespace
         IN  SubSeq(s, first, last)

\* t is p without its leading and trailing whitespace
IsTrimOf(t, p) ==
    \E i \in 1..(Len(p) + 1), j \in 0..Len(p) :
        /\ t = SubSeq(p, i, j)
        /\ \A k \in 1..(i - 1) : p[k] \in Whitespace
        /\ \A k \in (j + 1)..Len(p) : p[k] \in Whitespace
        /\ t # <<>> => (t[1] \notin Whitespace /\ t[Len(t)] \notin Whitespace)

\* s has sep at position i
MatchAt(s, sep, i) ==
    /\ i >= 1
    /\ i + Len(sep) - 1 <= Len(s)
    /\ SubSeq(s, i, i + Len(sep) - 1) = sep

\* Python: s.find(sep, i), 1-based, 0 when absent
find(s, sep, i) ==
    LET hits == {j \in i..Len(s) : MatchAt(s, sep, j)}
    IN  IF hits = {} THEN 0 ELSE CHOOSE j \in hits : \A h \in hits : j <= h

\* Python: s.split(sep) for a non-empty sep: leftmost, non-overlapping
RECURSIVE split_from(_, _, _)
split_from(s, sep, i) ==
    LET j == find(s, sep, i)
    IN  IF j = 0 THEN <<SubSeq(s, i, Len(s))>>
        ELSE <<SubSeq(s, i, j - 1)>> \o split_from(s, sep, j + Len(sep))

\* A call either returns a value or raises; an exception is the sequence of
\* the parts of its message, outermost first (f"...: {str(e)}" prepends).
Ok(v)    == [ok |-> TRUE,  val |-> v,    exc |-> <<>>]
Raise(e) == [ok |-> FALSE, val |-> <<>>, exc |-> e]

ValueErrorEmptySeparator == <<"ValueError", "empty separator">>

\* A split that degenerates to one piece per character on an empty separator
split_per_character(s, sep) ==
    IF sep = <<>> THEN Ok([k \in 1..Len(s) |-> <<s[k]>>])
    ELSE Ok(split_from(s, sep, 1))

\* Python: s.split(sep); an empty separator raises ValueError("empty separator")
split(s, sep) ==
    IF sep = <<>> THEN Raise(ValueErrorEmptySeparator)
    ELSE Ok(split_from(s, sep, 1))

\* The comprehension without its "if s.strip()" filter
RECURSIVE strip_all(_)
strip_all(pieces) ==
    IF pieces = <<>> THEN <<>>
    ELSE <<strip(Head(pieces))>> \o strip_all(Tail(pieces))

RECURSIVE strip_nonblank(_)
\* [s.strip() for s in pieces if s.strip()]
strip_nonblank(pieces) ==
    IF pieces = <<>> THEN <<>>
    ELSE LET t == strip(Head(pieces))
         IN  (IF t # <<>> THEN <<t>> ELSE <<>>) \o strip_nonblank(Tail(pieces))

parse_snippets(text, token) ==
    LET pieces == split(text, token)
    IN  IF pieces.ok THEN Ok(strip_nonblank(pieces.val)) ELSE pieces

(***************************************************************************)
(* Prompt builder.  A template is a sequence of the pieces str.format      *)
(* tells apart; a prompt is text, a sequence of pieces too.                *)
(*   "{snippet}"    the replacement field                                  *)
(*   "{{snippet}}"  escaped braces: the literal text {snippet}             *)
(*   "{other}"      a replacement field of another name (KeyError)         *)
(*   "{"            a single brace (ValueError)                            *)
(*   anything else  literal text                                           *)
(***************************************************************************)
Placeholder == "{snippet}"

TemplatePieces == {"p", Placeholder, "{{snippet}}", "{other}", "{"}

\* Python: template.format(snippet=snippet), from piece k on
RECURSIVE format_from(_, _, _, _)
format_from(template, snippet, k, out) ==
    IF k > Len(template) THEN Ok(out)
    ELSE LET piece == template[k]
         IN  IF piece = Placeholder
                 THEN format_from(template, snippet, k + 1, out \o snippet)
             ELSE IF piece = "{{snippet}}"
                 THEN format_from(template, snippet, k + 1, Append(out, "{snippet}"))
             ELSE IF piece = "{other}" THEN Raise(<<"KeyError", "other">>)
             ELSE IF piece = "{" THEN Raise(<<"ValueError", "Single '{' encountered">>)
             ELSE format_from(template, snippet, k + 1, Append(out, piece))

format(template, snippet) == format_from(template, snippet, 1, <<>>)

build_instruction_prompt(snippet, template) == format(template, snippet)

build_input_prompt(snippet, template) == format(template, snippet)

\* Python: "{snippet}" in template, a substring test: the escaped form
\* {{snippet}} contains the text too
in_template(template) ==
    \E k \in 1..Len(template) : template[k] \in {Placeholder, "{{snippet}}"}

validate_prompts(instruction_template, input_template) ==
    IF ~in_template(instruction_template)
        THEN [ok |-> FALSE, msg |-> "Instruction template must contain {snippet} placeholder"]
    ELSE IF ~in_template(input_template)
        THEN [ok |-> FALSE, msg |-> "Input template must contain {snippet} placeholder"]
    ELSE [ok |-> TRUE, msg |-> "Prompts are valid"]

\* gen_training.py builds its prompts with f-strings around {snippet}
CliTemplate == <<"p", Placeholder, "p">>

\* the templates tried are not empty
Templates == SeqsUpTo(TemplatePieces, MaxTemplateLen) \ {<<>>}

\* snippet texts handed to the builders; one coincides with the placeholder
PromptSnippets == {<<"X">>, <<"{snippet}">>}

NotBuilt     == [snippet |-> <<>>, result |-> Raise(<<"not called">>)]
NotValidated == [ok |-> FALSE, msg |-> "not called"]

PromptUnused ==
    /\ instruction_prompt = <<>> /\ input_prompt = <<>>
    /\ prompts = [instruction |-> NotBuilt, input |-> NotBuilt]
    /\ validation = NotValidated

\* a worker that runs nothing
Idle == [idx |-> 0, stage |-> "idle", instruction |-> <<>>]

\* the run state before a run starts
RunNotStarted ==
    /\ queue = <<>>
    /\ submitted = 0
    /\ threads = [w \in 1..MaxWorkers |-> Idle]
    /\ futures = <<>>
    /\ calls = <<>>
    /\ training_data = <<>>
    /\ reported = <<>>

RunUnused == max_workers = 1 /\ RunNotStarted

NoResponse == [net |-> "none", lines |-> <<>>]

\* the connectivity probe before the "Test API Connection" button is pressed
NoChoices  == [type |-> "absent", len |-> 0]
NoBody     == [json |-> "invalid", choices |-> NoChoices]
NoProbe    == [net |-> "none", status |-> 0, body |-> NoBody]
NotProbed  == [raised |-> FALSE, ok |-> FALSE, message |-> <<"not called">>]
ProbeUnused == probe_response = NoProbe /\ probe_result = NotProbed
NotCalled  == Raise(<<"not called">>)
NotParsed  == Raise(<<"not called">>)

PromptInit ==
    /\ impl = "utils"
    /\ pc = "start"
    /\ story_text = <<>> /\ split_token = <<>> /\ snippets = NotParsed
    /\ response = NoResponse /\ completion = NotCalled
    /\ ProbeUnused
    /\ instruction_prompt \in Templates
    /\ input_prompt \in Templates
    /\ prompts = [instruction |-> NotBuilt, input |-> NotBuilt]
    /\ validation = NotValidated
    /\ RunUnused

PromptBuildInstruction ==
    /\ prompts.instruction = NotBuilt
    /\ \E snippet \in PromptSnippets :
           prompts' = [prompts EXCEPT !.instruction =
               [snippet |-> snippet,
                result |-> build_instruction_prompt(snippet, instruction_prompt)]]
    /\ UNCHANGED <<impl, pc, segVars, streamVars, probeVars, tmplVars, validation, runVars>>

PromptBuildInput ==
    /\ prompts.input = NotBuilt
    /\ \E snippet \in PromptSnippets :
           prompts' = [prompts EXCEPT !.input =
               [snippet |-> snippet,
                result |-> build_input_prompt(snippet, input_prompt)]]
    /\ UNCHANGED <<impl, pc, segVars, streamVars, probeVars, tmplVars, validation, runVars>>

PromptValidate ==
    /\ validation = NotValidated
    /\ validation' = validate_prompts(instruction_prompt, input_prompt)
    /\ UNCHANGED <<impl, pc, segVars, streamVars, probeVars, tmplVars, prompts, runVars>>

PromptNext == PromptBuildInstruction \/ PromptBuildInput \/ PromptValidate

SpecPrompt == PromptInit /\ [][PromptNext]_vars

HasPlaceholder(template) == \E k \in 1..Len(template) : template[k] = Placeholder

\* C7: building a prompt from a template without the {snippet} placeholder
\* fails; no prompt text is ever produced from such a template.
C7_NoPromptWithoutPlaceholder ==
    /\ (prompts.instruction # NotBuilt /\ ~HasPlaceholder(instruction_prompt))
           => ~prompts.instruction.result.ok
    /\ (prompts.input # NotBuilt /\ ~HasPlaceholder(input_prompt))
           => ~prompts.input.result.ok

\* what the builders do: with the placeholder absent and nothing else for
\* str.format to reject, the template comes back as the prompt
C7_TemplateReturnedUnchanged ==
    (prompts.instruction # NotBuilt /\ instruction_prompt = <<"p">>)
        => prompts.instruction.result = Ok(<<"p">>)

(***************************************************************************)
(* Completion client: one streamed chat-completion request.               *)
(*                                                                         *)
(* A response is the outcome of requests.post + raise_for_status ("net")   *)
(* and the lines resp.iter_lines() yields.  A line is its leading bytes    *)
(* ("prefix"), the text after them ("raw") and what that text holds:       *)
(*   text       plain text: [DONE], alone or between blanks                *)
(*   chunk      JSON with choices[0].delta.content = content               *)
(*   role       JSON whose delta has no content key                        *)
(*   null       JSON whose delta.content is null                           *)
(*   nochoices  well-formed JSON without a usable choices[0].delta         *)
(*   malformed  text json.loads rejects                                    *)
(*   empty      nothing (a keep-alive line)                                *)
(*   reset      the connection breaks here: iter_lines raises              *)
(***************************************************************************)
DataPrefix == "data: "
DoneText   == <<"[DONE]">>
JsonText   == <<"{json}">>

Line(prefix, raw, kind, content) ==
    [prefix |-> prefix, raw |-> raw, kind |-> kind, content |-> content]

EmptyLine      == Line("", <<>>, "empty", <<>>)
CommentLine    == Line(": ", JsonText, "chunk", <<"a">>)
BareChunkLine  == Line("", JsonText, "chunk", <<"b">>)
DoneLine       == Line(DataPrefix, DoneText, "text", <<>>)
PaddedDoneLine == Line(DataPrefix, <<" ">> \o DoneText \o <<" ">>, "text", <<>>)
ChunkLine(c)   == Line(DataPrefix, JsonText, "chunk", c)
RoleLine       == Line(DataPrefix, JsonText, "role", <<>>)
NullLine       == Line(DataPrefix, JsonText, "null", <<>>)
NoChoicesLine  == Line(DataPrefix, JsonText, "nochoices", <<>>)
MalformedLine  == Line(DataPrefix, <<"{">>, "malformed", <<>>)
ResetLine      == Line("", <<>>, "reset", <<>>)

Fragments == {<<"a">>, <<"b">>, <<" ">>, <<>>}

Lines ==
    {EmptyLine, CommentLine, BareChunkLine, DoneLine, PaddedDoneLine, RoleLine,
     NullLine, NoChoicesLine, MalformedLine, ResetLine}
        \cup {ChunkLine(c) : c \in Fragments}

NetOutcomes == {"ok", "ConnectionError", "Timeout", "HTTPError"}

\* line.startswith(b"data: ")
startswith_data(line) == line.prefix = DataPrefix

\* line[6:].decode("utf-8").strip()
payload(line) == [text |-> strip(line.raw), kind |-> line.kind, content |-> line.content]

\* chunk == "[DONE]"
is_done(chunk) == chunk.text = DoneText

\* data["choices"][0]["delta"].get("content", "")
delta_content(chunk) ==
    IF chunk.kind = "chunk" THEN chunk.content ELSE <<>>

\* The loop with "continue" where the code has "break" at [DONE]
RECURSIVE utils_read_lines_no_break(_, _, _)
utils_read_lines_no_break(ls, k, text) ==
    IF k > Len(ls) THEN Ok(strip(text))
    ELSE LET line == ls[k]
         IN  IF line.kind = "reset" THEN Raise(<<"ChunkedEncodingError">>)
             ELSE IF line.kind = "empty" \/ ~startswith_data(line)
                  THEN utils_read_lines_no_break(ls, k + 1, text)
             ELSE LET chunk == payload(line)
                  IN  IF is_done(chunk) THEN utils_read_lines_no_break(ls, k + 1, text)
                      ELSE IF chunk.kind = "malformed"
                           THEN utils_read_lines_no_break(ls, k + 1, text)
                      ELSE IF chunk.kind = "nochoices" THEN Raise(<<"KeyError", "choices">>)
                      ELSE utils_read_lines_no_break(ls, k + 1, text \o delta_content(chunk))

\* The loop when a stream that ends without [DONE] is an error
RECURSIVE utils_read_lines_require_done(_, _, _)
utils_read_lines_require_done(ls, k, text) ==
    IF k > Len(ls) THEN Raise(<<"IncompleteRead">>)
    ELSE LET line == ls[k]
         IN  IF line.kind = "reset" THEN Raise(<<"ChunkedEncodingError">>)
             ELSE IF line.kind = "empty" \/ ~startswith_data(line)
                  THEN utils_read_lines_require_done(ls, k + 1, text)
             ELSE LET chunk == payload(line)
                  IN  IF is_done(chunk) THEN Ok(strip(text))
                      ELSE IF chunk.kind = "malformed"
                           THEN utils_read_lines_require_done(ls, k + 1, text)
                      ELSE IF chunk.kind = "nochoices" THEN Raise(<<"KeyError", "choices">>)
                      ELSE utils_read_lines_require_done(ls, k + 1, text \o delta_content(chunk))

\* utils.stream_llm_response, lines 42-57, from line k on with text accumulated.
\* Exceptions leave the loop as raised; the function's handlers wrap them.
RECURSIVE utils_read_lines(_, _, _)
utils_read_lines(ls, k, text) ==
    IF k > Len(ls) THEN Ok(strip(text))
    ELSE LET line == ls[k]
         IN  IF line.kind = "reset" THEN Raise(<<"ChunkedEncodingError">>)
             ELSE IF line.kind = "empty" \/ ~startswith_data(line)
                  THEN utils_read_lines(ls, k + 1, text)
             ELSE LET chunk == payload(line)
                  IN  IF is_done(chunk) THEN Ok(strip(text))
                      ELSE IF chunk.kind = "malformed"
                           THEN utils_read_lines(ls, k + 1, text)
                      ELSE IF chunk.kind = "nochoices" THEN Raise(<<"KeyError", "choices">>)
                      ELSE utils_read_lines(ls, k + 1, text \o delta_content(chunk))

\* gen_training.stream_llm_response, lines 78-94: json.loads is not guarded
RECURSIVE cli_read_lines(_, _, _)
cli_read_lines(ls, k, text) ==
    IF k > Len(ls) THEN Ok(strip(text))
    ELSE LET line == ls[k]
         IN  IF line.kind = "reset" THEN Raise(<<"ChunkedEncodingError">>)
             ELSE IF line.kind = "empty" \/ ~startswith_data(line)
                  THEN cli_read_lines(ls, k + 1, text)
             ELSE LET chunk == payload(line)
                  IN  IF is_done(chunk) THEN Ok(strip(text))
                      ELSE IF chunk.kind = "malformed" THEN Raise(<<"JSONDecodeError">>)
                      ELSE IF chunk.kind = "nochoices" THEN Raise(<<"KeyError", "choices">>)
                      ELSE cli_read_lines(ls, k + 1, text \o delta_content(chunk))

RequestExceptions == {"ConnectionError", "Timeout", "HTTPError", "ChunkedEncodingError"}

\* utils.stream_llm_response: requests' exceptions become "API request
\* failed: ...", every other one "Error processing response: ..."
utils_stream_llm_response(resp) ==
    LET r == IF resp.net # "ok" THEN Raise(<<resp.net>>)
             ELSE utils_read_lines(resp.lines, 1, <<>>)
    IN  IF r.ok THEN r
        ELSE IF r.exc[1] \in RequestExceptions
             THEN Raise(<<"API request failed">> \o r.exc)
        ELSE Raise(<<"Error processing response">> \o r.exc)

\* gen_training.stream_llm_response: nothing is caught
cli_stream_llm_response(resp) ==
    IF resp.net # "ok" THEN Raise(<<resp.net>>)
    ELSE cli_read_lines(resp.lines, 1, <<>>)

stream_llm_response(program, resp) ==
    IF program = "cli" THEN cli_stream_llm_response(resp)
    ELSE utils_stream_llm_response(resp)

Responses ==
    {[net |-> n, lines |-> <<>>] : n \in NetOutcomes \ {"ok"}}
        \cup {[net |-> "ok", lines |-> ls] : ls \in SeqsUpTo(Lines, MaxLines)}

StreamInit ==
    /\ impl \in {"utils", "cli"}
    /\ pc = "start"
    /\ story_text = <<>> /\ split_token = <<>> /\ snippets = NotParsed
    /\ response \in Responses
    /\ completion = NotCalled
    /\ ProbeUnused
    /\ PromptUnused
    /\ RunUnused

StreamCallUtils ==
    /\ impl = "utils" /\ pc = "start"
    /\ completion' = stream_llm_response("utils", response)
    /\ pc' = IF completion'.ok THEN "returned" ELSE "raised"
    /\ UNCHANGED <<impl, segVars, response, probeVars, tmplVars, promptVars, runVars>>

StreamCallCli ==
    /\ impl = "cli" /\ pc = "start"
    /\ completion' = stream_llm_response("cli", response)
    /\ pc' = IF completion'.ok THEN "returned" ELSE "raised"
    /\ UNCHANGED <<impl, segVars, response, probeVars, tmplVars, promptVars, runVars>>

StreamNext == StreamCallUtils \/ StreamCallCli

SpecStream == StreamInit /\ [][StreamNext]_vars

(***************************************************************************)
(* Completion client: what the returned text must be.                      *)
(***************************************************************************)
\* the first line that begins with 'data: ' and carries [DONE]; past the end
\* of the stream when there is none
FirstDone(ls) ==
    LET dones == {k \in 1..Len(ls) :
                     ls[k].prefix = DataPrefix /\ IsTrimOf(DoneText, ls[k].raw)}
    IN  IF dones = {} THEN Len(ls) + 1
        ELSE CHOOSE k \in dones : \A d \in dones : k <= d

\* the content fragment a line carries, if it is a 'data: ' line before n
Contribution(ls, k, n) ==
    IF k < n /\ ls[k].prefix = DataPrefix /\ ls[k].kind = "chunk"
    THEN ls[k].content ELSE <<>>

\* the fragments of lines 1..k that count, in arrival order
RECURSIVE ConcatContributions(_, _, _)
ConcatContributions(ls, k, n) ==
    IF k = 0 THEN <<>>
    ELSE ConcatContributions(ls, k - 1, n) \o Contribution(ls, k, n)

ExpectedText(ls) == ConcatContributions(ls, Len(ls), FirstDone(ls))

\* C4: the text a completion call returns is the trimmed concatenation, in
\* arrival order, of the fragments of the 'data: ' lines before the first
\* [DONE]; other lines, and lines at or after [DONE], contribute nothing.
C4_ReturnedTextIsTrimmedConcatBeforeDone ==
    pc = "returned" =>
        /\ completion.ok
        /\ IsTrimOf(completion.val, ExpectedText(response.lines))

\* fragments around blanks, a line without the prefix, and a cut at [DONE]
C4_Witness ==
    /\ pc = "returned"
    /\ \E k \in 1..Len(response.lines) :
           /\ response.lines[k] = DoneLine
           /\ k < Len(response.lines)
           /\ response.lines[Len(response.lines)] = ChunkLine(<<"b">>)
    /\ response.lines[1] = ChunkLine(<<"a">>)
    /\ completion = Ok(<<"a">>)

C4_WitnessOrder ==
    /\ pc = "returned" /\ impl = "cli"
    /\ response.lines = <<ChunkLine(<<"b">>), BareChunkLine, ChunkLine(<<"a">>)>>
    /\ completion = Ok(<<"b", "a">>)

\* the stream with every 'data: ' line whose payload json.loads rejects removed
RECURSIVE WithoutMalformed(_)
WithoutMalformed(ls) ==
    IF ls = <<>> THEN <<>>
    ELSE (IF Head(ls).prefix = DataPrefix /\ Head(ls).kind = "malformed"
          THEN <<>> ELSE <<Head(ls)>>) \o WithoutMalformed(Tail(ls))

\* C5: a malformed chunk is skipped and never makes the call fail: the
\* result is that of the same stream with every malformed chunk removed.
C5_MalformedChunkSkipped ==
    (pc \in {"returned", "raised"} /\ response.net = "ok") =>
        completion = stream_llm_response(
            impl, [net |-> "ok", lines |-> WithoutMalformed(response.lines)])

\* what holds of utils.py alone (not of gen_training.py)
C5_UtilsSkipsMalformed ==
    (impl = "utils" /\ pc \in {"returned", "raised"} /\ response.net = "ok") =>
        completion = stream_llm_response(
            impl, [net |-> "ok", lines |-> WithoutMalformed(response.lines)])

(***************************************************************************)
(* Segmentation on its own: every text and delimiter within the bounds.    *)
(***************************************************************************)
ExampleToken == <<"<", "S", "P", "L", "I", "T", ">">>
ExampleText  ==
    <<"a">> \o ExampleToken \o <<"b">> \o ExampleToken \o <<" ", " ">>
            \o ExampleToken \o <<"c">>

Texts  == SeqsUpTo(Chars, MaxTextLen) \cup {ExampleText}
Tokens == {<<>>, <<"<">>, <<"<", ">">>, <<"a", "a">>, ExampleToken}

SegInit ==
    /\ impl \in {"utils", "app", "cli"}
    /\ pc = "start"
    /\ story_text \in Texts
    /\ split_token \in Tokens
    /\ snippets = NotParsed
    /\ response = NoResponse
    /\ completion = NotCalled
    /\ ProbeUnused
    /\ PromptUnused
    /\ RunUnused

\* utils.parse_snippets called directly
SegCallUtils ==
    /\ impl = "utils" /\ pc = "start"
    /\ snippets' = parse_snippets(story_text, split_token)
    /\ pc' = "parsed"
    /\ UNCHANGED <<impl, story_text, split_token, streamVars, probeVars, tmplVars, promptVars, runVars>>

\* app.main: "if story_text: snippets = parse_snippets(story_text, split_token)"
SegCallApp ==
    /\ impl = "app" /\ pc = "start"
    /\ story_text # <<>>
    /\ snippets' = parse_snippets(story_text, split_token)
    /\ pc' = "parsed"
    /\ UNCHANGED <<impl, story_text, split_token, streamVars, probeVars, tmplVars, promptVars, runVars>>

\* gen_training.main: the same comprehension inline on the file's content
SegCallCli ==
    /\ impl = "cli" /\ pc = "start"
    /\ snippets' = parse_snippets(story_text, split_token)
    /\ pc' = "parsed"
    /\ UNCHANGED <<impl, story_text, split_token, streamVars, probeVars, tmplVars, promptVars, runVars>>

SegNext == SegCallUtils \/ SegCallApp \/ SegCallCli

SpecSeg == SegInit /\ [][SegNext]_vars

(***************************************************************************)
(* Segmentation: what the result must be, stated without the algorithm.    *)
(***************************************************************************)
RECURSIVE Join(_, _)
Join(pieces, sep) ==
    IF Len(pieces) = 0 THEN <<>>
    ELSE IF Len(pieces) = 1 THEN pieces[1]
    ELSE pieces[1] \o sep \o Join(Tail(pieces), sep)

Contains(s, sep) == \E j \in 1..Len(s) : MatchAt(s, sep, j)

\* P is the split of s on every literal, non-overlapping occurrence of sep,
\* taken from the left: the pieces joined by sep give s back, a delimiter
\* ends each piece at its first chance, and none is left in the last piece.
IsSplitOf(P, s, sep) ==
    /\ Len(P) >= 1
    /\ Join(P, sep) = s
    /\ \A k \in 1..(Len(P) - 1) :
           \A j \in 1..Len(P[k]) : ~MatchAt(P[k] \o sep, sep, j)
    /\ ~Contains(P[Len(P)], sep)

\* R is the trimmed non-blank pieces of P, in P's order
IsTrimmedNonBlankOf(R, P) ==
    LET kept == {k \in 1..Len(P) : \E c \in 1..Len(P[k]) : P[k][c] \notin Whitespace}
        nth(n) == CHOOSE k \in kept : Cardinality({m \in kept : m <= k}) = n
    IN  /\ Len(R) = Cardinality(kept)
        /\ \A n \in 1..Len(R) : IsTrimOf(R[n], P[nth(n)])

\* C9: for every text and every non-empty delimiter, segmentation returns
\* only non-empty pieces without leading or trailing whitespace, and they are
\* exactly the trimmed non-blank pieces of the delimiter split, in text order.
C9_SegmentationTrimmedNonBlankInOrder ==
    (pc = "parsed" /\ split_token # <<>>) =>
        /\ snippets.ok
        /\ \A n \in 1..Len(snippets.val) :
               LET t == snippets.val[n]
               IN  t # <<>> /\ t[1] \notin Whitespace /\ t[Len(t)] \notin Whitespace
        /\ \E P \in {split_from(story_text, split_token, 1)} :
               /\ IsSplitOf(P, story_text, split_token)
               /\ IsTrimmedNonBlankOf(snippets.val, P)

\* the spec's example: 'a<SPLIT>b<SPLIT>  <SPLIT>c' gives a, b, c
C9_Witness ==
    /\ pc = "parsed"
    /\ story_text = ExampleText /\ split_token = ExampleToken
    /\ snippets = Ok(<< <<"a">>, <<"b">>, <<"c">> >>)

\* an overlapping delimiter and a blank piece in one text
C9_WitnessOverlap ==
    /\ pc = "parsed" /\ impl = "cli"
    /\ story_text = <<"a", "a", "a", " ">> /\ split_token = <<"a", "a">>
    /\ snippets = Ok(<< <<"a">> >>)

\* C10: with an empty delimiter segmentation raises for every text and
\* never returns a snippet list, from the UI's split-token field as well.
C10_EmptyDelimiterAlwaysFails ==
    split_token = <<>> =>
        /\ ~snippets.ok
        /\ snippets.val = <<>>
        /\ pc = "parsed" => snippets.exc = ValueErrorEmptySeparator

C10_Witness ==
    /\ impl = "app" /\ pc = "parsed"
    /\ split_token = <<>> /\ Len(story_text) >= 2
    /\ snippets = Raise(ValueErrorEmptySeparator)

(***************************************************************************)
(* The pipeline run.                                                       *)
(*   "app": app.main, lines 217-276: the snippets are processed one by one *)
(*          in the script's own thread; max_workers is read from the       *)
(*          slider and not used.                                           *)
(*   "cli": gen_training.main, lines 106-135: a ThreadPoolExecutor of      *)
(*          args.workers threads, results collected by as_completed.       *)
(* Snippet indices are 1-based here: index i is the code's i + 1, the      *)
(* number its messages show.                                               *)
(***************************************************************************)
Program == IF impl = "cli" THEN "cli" ELSE "utils"

N == Len(snippets.val)

\* how many process_snippet invocations the run lets be in flight
pool_size(program, workers) == IF program = "cli" THEN workers ELSE 1

InFlight == {w \in 1..MaxWorkers : threads[w].stage # "idle"}

\* the exception process_snippet lets out for a failure exc inside it
\* utils.process_snippet wrapping without the cause's text
process_failure_no_cause(program, exc) ==
    IF program = "cli" THEN Raise(exc)
    ELSE Raise(<<"Failed to process snippet">>)

process_failure(program, exc) ==
    IF program = "cli" THEN Raise(exc)
    ELSE Raise(<<"Failed to process snippet">> \o exc)

\* the message of the per-snippet failure report
report_message(program, i, exc) ==
    IF program = "cli" THEN <<"Snippet", ToString(i), "failed">> \o exc
    ELSE <<"Error processing snippet", ToString(i)>> \o exc

\* a failure that is swallowed without a report
report_failure_silent(rep, program, i, exc) == rep

\* logging.error("Snippet %d failed: %s", i+1, e) / st.error(...)
report_failure(rep, program, i, exc) ==
    Append(rep, [idx |-> i, exc |-> exc, message |-> report_message(program, i, exc)])

\* fout.write(json.dumps(record)) / training_data.append(result)
write_record(data, i, record) == Append(data, [idx |-> i, rec |-> record])

\* a record whose output is taken from the second completion
make_record_output_from_input(instruction, input, snippet) ==
    [instruction |-> instruction, input |-> input, output |-> input]

\* record = {"instruction": ..., "input": ..., "output": snippet}
make_record(instruction, input, snippet) ==
    [instruction |-> instruction, input |-> input, output |-> snippet]

\* a failure that cancels the snippets still waiting
remaining_after_failure_cancel(q) == <<>>

\* the snippets still waiting once one has failed: the except clause only
\* reports, the loop and the pool go on
remaining_after_failure(q) == q

\* the instruction and input prompts process_snippet builds
instruction_prompt_for(program, snippet) ==
    IF program = "cli" THEN format(CliTemplate, snippet)
    ELSE build_instruction_prompt(snippet, instruction_prompt)

input_prompt_for(program, snippet) ==
    IF program = "cli" THEN format(CliTemplate, snippet)
    ELSE build_input_prompt(snippet, input_prompt)

\* the answers the endpoint gives in a run
OkResponse        == [net |-> "ok", lines |-> <<ChunkLine(<<"a">>), DoneLine>>]
ConnectionFailure == [net |-> "ConnectionError", lines |-> <<>>]
MalformedResponse == [net |-> "ok", lines |-> <<MalformedLine, ChunkLine(<<"b">>)>>]

RunResponses == {OkResponse, ConnectionFailure, MalformedResponse}

RunPieces == {<<"a">>, <<" ", "b">>}
RunToken  == <<"<">>
RunTexts  == {Join(ps, RunToken) : ps \in SeqsUpTo(RunPieces, MaxSnippets)}

GoodTemplate == <<"p", Placeholder>>
BareTemplate == <<"p">>
RunTemplates ==
    {<<GoodTemplate, GoodTemplate>>, <<BareTemplate, GoodTemplate>>,
     <<GoodTemplate, BareTemplate>>}

Init ==
    /\ impl \in {"app", "cli"}
    /\ pc = "start"
    /\ story_text \in RunTexts
    /\ split_token \in {<<>>, RunToken}
    /\ snippets = NotParsed
    /\ response = NoResponse /\ completion = NotCalled
    /\ ProbeUnused
    /\ \E t \in (IF impl = "cli" THEN {<<CliTemplate, CliTemplate>>} ELSE RunTemplates) :
           instruction_prompt = t[1] /\ input_prompt = t[2]
    /\ prompts = [instruction |-> NotBuilt, input |-> NotBuilt]
    /\ validation = NotValidated
    \* --workers is any integer; the slider starts at 1
    /\ max_workers \in (IF impl = "cli" THEN 0..MaxWorkers ELSE 1..MaxWorkers)
    /\ RunNotStarted

NoFuture == [state |-> "pending", result |-> NotCalled]

\* app.main 178-179 and 217-218; gen_training.main 113-114
Parse ==
    /\ pc = "start"
    /\ impl = "app" => story_text # <<>>
    /\ snippets' = parse_snippets(story_text, split_token)
    /\ pc' = IF snippets'.ok THEN "parsed" ELSE "aborted"
    /\ futures' = [i \in 1..Len(snippets'.val) |-> NoFuture]
    /\ calls' = [i \in 1..Len(snippets'.val) |-> <<>>]
    /\ UNCHANGED <<impl, story_text, split_token, streamVars, probeVars, tmplVars, promptVars,
                   max_workers, queue, submitted, threads, training_data, reported>>

\* app.main 219-228: "if snippets:" and the Start Processing button
StartProcessing ==
    /\ impl = "app" /\ pc = "parsed"
    /\ snippets.val # <<>>
    /\ pc' = "processing"
    /\ training_data' = <<>>
    /\ queue' = [i \in 1..N |-> i]
    /\ UNCHANGED <<impl, segVars, streamVars, probeVars, tmplVars, promptVars,
                   max_workers, submitted, threads, futures, calls, reported>>

\* gen_training.main 119-120: ThreadPoolExecutor(max_workers) raises
\* ValueError unless max_workers > 0
OpenPool ==
    /\ impl = "cli" /\ pc = "parsed"
    /\ pc' = IF max_workers <= 0 THEN "aborted"
             ELSE IF N = 0 THEN "collecting" ELSE "submitting"
    /\ UNCHANGED <<impl, segVars, streamVars, probeVars, tmplVars, promptVars, runVars>>

\* gen_training.main 122-125: pool.submit, snippet by snippet
Submit ==
    /\ impl = "cli" /\ pc = "submitting"
    /\ submitted < N
    /\ submitted' = submitted + 1
    /\ queue' = Append(queue, submitted + 1)
    /\ pc' = IF submitted + 1 = N THEN "collecting" ELSE "submitting"
    /\ UNCHANGED <<impl, segVars, streamVars, probeVars, tmplVars, promptVars,
                   max_workers, threads, futures, calls, training_data, reported>>

\* process_snippet of snippet i on worker w ends with result; q is the queue
\* it leaves.  In the UI the loop body appends or reports at once; in the CLI
\* the future holds the outcome until as_completed yields it.
Complete(w, i, result, q) ==
    /\ threads' = [threads EXCEPT ![w] = Idle]
    /\ queue' = IF result.ok THEN q ELSE remaining_after_failure(q)
    /\ IF impl = "cli"
       THEN /\ futures' = [futures EXCEPT ![i] = [state |-> "finished", result |-> result]]
            /\ UNCHANGED <<training_data, reported>>
       ELSE /\ futures' = [futures EXCEPT ![i] = [state |-> "collected", result |-> result]]
            /\ IF result.ok
               THEN /\ training_data' = write_record(training_data, i, result.val)
                    /\ UNCHANGED reported
               ELSE /\ reported' = report_failure(reported, Program, i, result.exc)
                    /\ UNCHANGED training_data

\* a completion request as it is sent, and as its call returned or raised
Sent(which)   == [which |-> which, status |-> "in flight", exc |-> <<>>]
Settled(c, r) ==
    [c EXCEPT ![Len(c)] =
        [which |-> @.which, status |-> IF r.ok THEN "ok" ELSE "failed", exc |-> r.exc]]

\* a free worker takes the next snippet and process_snippet starts: it
\* builds the instruction prompt and sends the first request.  Workers are
\* interchangeable, so the lowest free one takes it.
Take(w) ==
    /\ pc \in {"submitting", "collecting", "processing"}
    /\ queue # <<>>
    /\ w <= pool_size(Program, max_workers)
    /\ threads[w] = Idle
    /\ \A v \in 1..(w - 1) : threads[v] # Idle
    /\ LET i == Head(queue)
           p == instruction_prompt_for(Program, snippets.val[i])
       IN  IF p.ok
           THEN /\ threads' = [threads EXCEPT ![w] =
                        [idx |-> i, stage |-> "instruction", instruction |-> <<>>]]
                /\ calls' = [calls EXCEPT ![i] = Append(@, Sent("instruction"))]
                /\ futures' = [futures EXCEPT ![i].state = "running"]
                /\ queue' = Tail(queue)
                /\ UNCHANGED <<training_data, reported>>
           ELSE /\ Complete(w, i, process_failure(Program, p.exc), Tail(queue))
                /\ UNCHANGED calls
    /\ UNCHANGED <<impl, pc, segVars, streamVars, probeVars, tmplVars, promptVars,
                   max_workers, submitted>>

\* an input request that is sent although the instruction request failed
sends_input_request_after_failure(r, q) == q.ok

\* the input request is sent when the instruction request has returned and
\* the input prompt is built: an exception from either leaves the try block
sends_input_request(r, q) == r.ok /\ q.ok

\* the instruction request returns or fails; on success process_snippet
\* builds the input prompt and sends the second request
InstructionReturns(w) ==
    /\ threads[w].stage = "instruction"
    /\ \E resp \in RunResponses :
         LET i == threads[w].idx
             r == stream_llm_response(Program, resp)
             q == input_prompt_for(Program, snippets.val[i])
         IN  IF sends_input_request(r, q)
             THEN /\ threads' = [threads EXCEPT ![w] =
                          [idx |-> i, stage |-> "input", instruction |-> r.val]]
                  /\ calls' = [calls EXCEPT ![i] = Append(Settled(@, r), Sent("input"))]
                  /\ UNCHANGED <<queue, futures, training_data, reported>>
             ELSE /\ calls' = [calls EXCEPT ![i] = Settled(@, r)]
                  /\ Complete(w, i,
                         process_failure(Program, IF r.ok THEN q.exc ELSE r.exc), queue)
    /\ UNCHANGED <<impl, pc, segVars, streamVars, probeVars, tmplVars, promptVars,
                   max_workers, submitted>>

\* the input request returns or fails; on success the record is assembled
InputReturns(w) ==
    /\ threads[w].stage = "input"
    /\ \E resp \in RunResponses :
         LET i == threads[w].idx
             r == stream_llm_response(Program, resp)
             record == make_record(threads[w].instruction, r.val, snippets.val[i])
         IN  /\ calls' = [calls EXCEPT ![i] = Settled(@, r)]
             /\ Complete(w, i,
                    IF r.ok THEN Ok(record) ELSE process_failure(Program, r.exc), queue)
    /\ UNCHANGED <<impl, pc, segVars, streamVars, probeVars, tmplVars, promptVars,
                   max_workers, submitted>>

\* gen_training.main 126-133: as_completed yields a finished future
Collect(i) ==
    /\ impl = "cli" /\ pc = "collecting"
    /\ futures[i].state = "finished"
    /\ futures' = [futures EXCEPT ![i].state = "collected"]
    /\ IF futures[i].result.ok
       THEN /\ training_data' = write_record(training_data, i, futures[i].result.val)
            /\ UNCHANGED reported
       ELSE /\ reported' = report_failure(reported, Program, i, futures[i].result.exc)
            /\ UNCHANGED training_data
    /\ UNCHANGED <<impl, pc, segVars, streamVars, probeVars, tmplVars, promptVars,
                   max_workers, queue, submitted, threads, calls>>

\* the loop over the snippets (UI) or over as_completed (CLI) is exhausted
Finish ==
    /\ \/ /\ impl = "cli" /\ pc = "collecting"
          /\ \A i \in 1..N : futures[i].state = "collected"
       \/ /\ impl = "app" /\ pc = "processing"
          /\ queue = <<>> /\ InFlight = {}
    /\ pc' = "done"
    /\ UNCHANGED <<impl, segVars, streamVars, probeVars, tmplVars, promptVars, runVars>>

Next ==
    \/ Parse
    \/ StartProcessing
    \/ OpenPool
    \/ Submit
    \/ \E w \in 1..MaxWorkers : Take(w)
    \/ \E w \in 1..MaxWorkers : InstructionReturns(w)
    \/ \E w \in 1..MaxWorkers : InputReturns(w)
    \/ \E i \in 1..N : Collect(i)
    \/ Finish

Spec == Init /\ [][Next]_vars

\* every thread that can run does, and every request is answered
FairSpec == Spec /\ WF_vars(Next)

(***************************************************************************)
(* The pipeline run: claims.                                               *)
(***************************************************************************)
Range(f) == {f[k] : k \in 1..Len(f)}

IsSuffix(t, u) == Len(t) <= Len(u) /\ SubSeq(u, Len(u) - Len(t) + 1, Len(u)) = t

Records(i)  == {k \in 1..Len(training_data) : training_data[k].idx = i}
Failures(i) == {k \in 1..Len(reported) : reported[k].idx = i}

\* a completion call of snippet i has failed
Failed(i) == \E k \in 1..Len(calls[i]) : calls[i][k].status = "failed"

Dispatched == pc \in {"processing", "submitting", "collecting"}

\* C1: a run of N snippets on W >= 1 workers terminates with exactly one
\* outcome, a record or a failure, for each index 1..N, whatever calls fail:
\* never two for an index while it runs, never none once it is over.
C1_RunTerminatesWithOneOutcomePerSnippet ==
    /\ [](\A i \in 1..N : Cardinality(Records(i)) + Cardinality(Failures(i)) <= 1)
    /\ [](pc = "done" =>
            /\ \A i \in 1..N : Cardinality(Records(i)) + Cardinality(Failures(i)) = 1
            /\ Len(training_data) + Len(reported) = N)
    /\ Dispatched ~> (pc = "done")

C1_Witness ==
    /\ pc = "done" /\ impl = "cli" /\ max_workers = MaxWorkers
    /\ N = MaxSnippets
    /\ Len(training_data) >= 1 /\ Len(reported) >= 1

\* C2: a failure of one snippet never cancels, skips or removes the record
\* of another: collected records stay, and when the run is over every
\* snippet none of whose completion calls failed has its record.
C2_FailureIsolation ==
    [][/\ \A k \in 1..Len(training_data) :
              k <= Len(training_data') /\ training_data'[k] = training_data[k]
       /\ pc' = "done" =>
              \A j \in 1..N : ~Failed(j)' => Records(j)' # {}]_vars

\* snippet 1 fails while snippet 2 is still waiting; 2 is written all the same
C2_Witness ==
    /\ pc = "done" /\ max_workers = 1 /\ N >= 2
    /\ Failed(1) /\ Failures(1) # {}
    /\ ~Failed(2) /\ Records(2) # {}

\* snippet 2 fails while snippet 1 is in flight on the other worker
C2_WitnessInFlight ==
    /\ impl = "cli" /\ N >= 2
    /\ Failed(2) /\ futures[1].state = "running"

\* C3: at most W invocations are in flight, and W is the bound the run
\* applies: a waiting snippet is taken whenever fewer than W are in flight.
C3_ConfiguredWorkersBoundApplied ==
    /\ Cardinality(InFlight) <= max_workers
    /\ (Dispatched /\ queue # <<>> /\ Cardinality(InFlight) < max_workers)
          => ENABLED (\E w \in 1..MaxWorkers : Take(w))

\* what holds of both programs: never more than W in flight, one snippet
\* per worker; and of the CLI: W is the bound applied
C3_InFlightAtMostConfigured ==
    /\ Cardinality(InFlight) <= max_workers
    /\ \A v, w \in InFlight : threads[v].idx = threads[w].idx => v = w
    /\ (impl = "cli" /\ Dispatched /\ queue # <<>> /\ Cardinality(InFlight) < max_workers)
          => ENABLED (\E w \in 1..MaxWorkers : Take(w))

\* the cause of snippet i's failure: the exception of its failed call
Cause(i) == (CHOOSE c \in Range(calls[i]) : c.status = "failed").exc

NoRecordForFailedSnippet ==
    \A i \in 1..N : Failed(i) =>
        /\ Records(i) = {}
        /\ calls[i][Len(calls[i])].status = "failed"
        /\ futures[i].state \in {"finished", "collected"}
        /\ ~futures[i].result.ok
        /\ pc = "done" => Failures(i) # {}

\* C6 as claimed: a failed snippet yields no record, and the failure that
\* reaches the caller names the snippet's index and carries the cause.
C6_FailureCarriesIndexAndCause ==
    /\ NoRecordForFailedSnippet
    /\ \A i \in 1..N : Failed(i) =>
           /\ ToString(i) \in Range(futures[i].result.exc)
           /\ IsSuffix(Cause(i), futures[i].result.exc)

\* C6 as the code has it: a failed snippet yields no record; the exception
\* that reaches the caller carries the cause and no index; the runner names
\* the index in the failure it reports.
C6_FailureCarriesCauseRunnerNamesIndex ==
    /\ NoRecordForFailedSnippet
    /\ \A i \in 1..N : Failed(i) =>
           /\ ToString(i) \notin Range(futures[i].result.exc)
           /\ IsSuffix(Cause(i), futures[i].result.exc)
    /\ \A k \in 1..Len(reported) :
           LET f == reported[k]
           IN  /\ Failed(f.idx)
               /\ f.exc = futures[f.idx].result.exc
               /\ ToString(f.idx) \in Range(f.message)
               /\ IsSuffix(f.exc, f.message)

\* the instruction call succeeded, the input call failed: no partial record
C6_Witness ==
    /\ pc = "done" /\ impl = "app"
    /\ \E i \in 1..N :
           /\ Len(calls[i]) = 2
           /\ calls[i][1].status = "ok" /\ calls[i][2].status = "failed"
           /\ Failures(i) # {} /\ Records(i) = {}

ConfigInvalid ==
    \/ split_token = <<>>
    \/ ~HasPlaceholder(instruction_prompt)
    \/ ~HasPlaceholder(input_prompt)
    \/ max_workers <= 0

\* no completion request was sent and no record collected or written
NothingProcessed ==
    /\ \A i \in 1..Len(calls) : calls[i] = <<>>
    /\ training_data = <<>>

\* C8: a run with an invalid configuration is aborted before dispatch: no
\* completion request is sent and no record is collected or written.
C8_InvalidConfigurationAborts == ConfigInvalid => NothingProcessed

\* what holds: an empty delimiter and a non-positive worker count abort
C8_DelimiterAndWorkersAbort ==
    (split_token = <<>> \/ max_workers <= 0) =>
        (NothingProcessed /\ ~Dispatched /\ pc # "done")

\* C11: in every record collected by any run, in the UI and in the CLI, the
\* output field is, character for character, the snippet segmentation
\* returned at the record's index, whatever the two completion calls
\* returned.
C11_OutputIsSnippetVerbatim ==
    \A k \in 1..Len(training_data) :
        /\ training_data[k].idx \in 1..N
        /\ training_data[k].rec.output = snippets.val[training_data[k].idx]
        /\ training_data[k].rec.output \in Range(parse_snippets(story_text, split_token).val)

\* a record is collected for the trimmed snippet "b" although both
\* completions returned another text
C11_Witness ==
    \E k \in 1..Len(training_data) :
        /\ training_data[k].rec.output = <<"b">>
        /\ training_data[k].rec.instruction = <<"a">>
        /\ training_data[k].rec.input = <<"a">>
        /\ Contains(story_text, <<" ", "b">>)

(***************************************************************************)
(* The connectivity probe: utils.test_api_connection, called by the        *)
(* "Test API Connection" button of the UI.                                 *)
(***************************************************************************)
\* the longest choices value enumerated
MaxChoices == 2

\* the status lines an endpoint answers with
ProbeStatuses == {200, 201, 204, 300, 304, 400, 401, 404, 429, 500, 503}

\* the value under "choices": a JSON array or string of some length, a
\* number, null, or no such key
ChoicesValues ==
    {NoChoices, [type |-> "number", len |-> 0], [type |-> "null", len |-> 0]}
        \cup {[type |-> t, len |-> n] : t \in {"array", "string"}, n \in 0..MaxChoices}

\* the bodies: not JSON at all, the JSON null, a JSON array, a JSON object
ProbeBodies ==
    {[json |-> j, choices |-> NoChoices] : j \in {"invalid", "null", "array"}}
        \cup {[json |-> "object", choices |-> c] : c \in ChoicesValues}

\* requests.post(url, ..., timeout=10) fails to connect, times out while
\* connecting or while reading, or returns a response
ProbeNetOutcomes == {"ConnectionError", "ConnectTimeout", "ReadTimeout"}

ProbeResponses ==
    {[net |-> n, status |-> 0, body |-> NoBody] : n \in ProbeNetOutcomes}
        \cup {[net |-> "ok", status |-> c, body |-> b] :
                 c \in ProbeStatuses, b \in ProbeBodies}

\* the classes an exception is an instance of: requests' ConnectTimeout
\* derives from both ConnectionError and Timeout
Bases(exc) ==
    CASE exc = "ConnectionError" -> {"ConnectionError", "RequestException", "Exception"}
      [] exc = "ConnectTimeout"  -> {"ConnectTimeout", "ConnectionError", "Timeout",
                                     "RequestException", "Exception"}
      [] exc = "ReadTimeout"     -> {"ReadTimeout", "Timeout", "RequestException", "Exception"}
      [] exc = "HTTPError"       -> {"HTTPError", "RequestException", "Exception"}
      [] exc = "JSONDecodeError" -> {"JSONDecodeError", "RequestException", "Exception"}
      [] exc = "TypeError"       -> {"TypeError", "Exception"}
      [] OTHER                   -> {}

isinstance(exc, class) == class \in Bases(exc)

\* how the body of the try block ends
Returned(ok, message) ==
    [exc |-> "none", status |-> 0, text |-> <<>>, ok |-> ok, message |-> message]
Raised(exc, status, text) ==
    [exc |-> exc, status |-> status, text |-> text, ok |-> FALSE, message |-> <<>>]

\* the messages, without the mark they all begin with
ProbeSuccessful  == <<"API connection successful!">>
ProbeUnexpected  == <<"API responded but format is unexpected">>
ProbeNoConnect   == <<"Cannot connect to API. Check if the server is running.">>
ProbeTimedOut    == <<"API request timed out">>
ProbeHttpError(status) == <<"HTTP error: ", ToString(status)>>
ProbeFailed(text)      == <<"Connection test failed: ">> \o text

\* resp.raise_for_status(): a 4xx or 5xx status raises HTTPError
raise_for_status(resp) == resp.status >= 400 /\ resp.status < 600

\* "choices" in data and len(data["choices"]) > 0
probe_choices(data) ==
    IF data.json = "null"
    THEN Raised("TypeError", 0, <<"argument of type 'NoneType' is not iterable">>)
    ELSE IF data.json = "array" \/ data.choices.type = "absent"
    THEN Returned(FALSE, ProbeUnexpected)
    ELSE IF data.choices.type \in {"number", "null"}
    THEN Raised("TypeError", 0, <<"object of type '", data.choices.type, "' has no len()">>)
    ELSE IF data.choices.len > 0
    THEN Returned(TRUE, ProbeSuccessful)
    ELSE Returned(FALSE, ProbeUnexpected)

\* the body of the try block
probe_request(resp) ==
    IF resp.net # "ok" THEN Raised(resp.net, 0, <<resp.net>>)
    ELSE IF raise_for_status(resp) THEN Raised("HTTPError", resp.status, <<"HTTPError">>)
    ELSE IF resp.body.json = "invalid" THEN Raised("JSONDecodeError", 0, <<"Expecting value">>)
    ELSE probe_choices(resp.body)

\* the except clauses, tried in the order they are written
test_api_connection(resp) ==
    LET r == probe_request(resp)
        answer(ok, message) == [raised |-> FALSE, ok |-> ok, message |-> message]
    IN  IF r.exc = "none" THEN answer(r.ok, r.message)
        ELSE IF isinstance(r.exc, "ConnectionError") THEN answer(FALSE, ProbeNoConnect)
        ELSE IF isinstance(r.exc, "Timeout") THEN answer(FALSE, ProbeTimedOut)
        ELSE IF isinstance(r.exc, "HTTPError") THEN answer(FALSE, ProbeHttpError(r.status))
        ELSE IF isinstance(r.exc, "Exception") THEN answer(FALSE, ProbeFailed(r.text))
        ELSE [raised |-> TRUE, ok |-> FALSE, message |-> r.text]

ProbeInit ==
    /\ impl = "app"
    /\ pc = "start"
    /\ story_text = <<>> /\ split_token = <<>> /\ snippets = NotParsed
    /\ response = NoResponse /\ completion = NotCalled
    /\ probe_response \in ProbeResponses
    /\ probe_result = NotProbed
    /\ PromptUnused
    /\ RunUnused

\* the button: the probe is called and its message shown with st.success or
\* st.error
TestConnection ==
    /\ pc = "start"
    /\ probe_result' = test_api_connection(probe_response)
    /\ pc' = IF probe_result'.raised THEN "raised"
             ELSE IF probe_result'.ok THEN "st.success" ELSE "st.error"
    /\ UNCHANGED <<impl, segVars, streamVars, probe_response, tmplVars, promptVars, runVars>>

ProbeNext == TestConnection

SpecProbe == ProbeInit /\ [][ProbeNext]_vars

(***************************************************************************)
(* The connectivity probe: claims.                                         *)
(***************************************************************************)
Is2xx(resp) == resp.net = "ok" /\ resp.status \in 200..299

HasChoicesArray(resp) ==
    /\ resp.body.json = "object"
    /\ resp.body.choices.type = "array"
    /\ resp.body.choices.len > 0

\* a JSON body with no choices in it
LacksChoices(resp) ==
    \/ resp.body.json = "array"
    \/ /\ resp.body.json = "object"
       /\ \/ resp.body.choices.type = "absent"
          \/ resp.body.choices.type = "array" /\ resp.body.choices.len = 0

\* the four failures the claim tells apart; a timeout is any of requests'
\* Timeout exceptions
FailureClass(resp) ==
    IF resp.net = "ConnectionError" THEN "connection failure"
    ELSE IF resp.net \in {"ConnectTimeout", "ReadTimeout"} THEN "timeout"
    ELSE IF resp.net = "ok" /\ ~Is2xx(resp) THEN "non-2xx status"
    ELSE IF Is2xx(resp) /\ LacksChoices(resp) THEN "no choices"
    ELSE "other"

\* the same, as the except clauses tell them apart: a timeout while
\* connecting counts as a connection failure, and only a 4xx or 5xx status
\* is refused
HandlerClass(resp) ==
    IF resp.net \in {"ConnectionError", "ConnectTimeout"} THEN "connection failure"
    ELSE IF resp.net = "ReadTimeout" THEN "timeout"
    ELSE IF resp.net = "ok" /\ raise_for_status(resp) THEN "refused status"
    ELSE IF resp.net = "ok" /\ LacksChoices(resp) THEN "no choices"
    ELSE "other"

Probed == pc # "start"

\* C12: the probe never raises to its caller; it returns ok = TRUE only for
\* a 2xx response whose JSON body has a non-empty choices array; a
\* connection failure, a timeout, a non-2xx status and a 2xx response
\* without choices each return ok = FALSE with a message that no response of
\* the other three kinds gets, and the message for a non-2xx status contains
\* the status code.
C12_ProbeClassifiesFailures ==
    Probed =>
        /\ ~probe_result.raised
        /\ probe_result.ok => Is2xx(probe_response) /\ HasChoicesArray(probe_response)
        /\ FailureClass(probe_response) # "other" =>
              /\ ~probe_result.ok
              /\ \A other \in ProbeResponses :
                    FailureClass(other) \notin {"other", FailureClass(probe_response)}
                        => test_api_connection(other).message # probe_result.message
        /\ FailureClass(probe_response) = "non-2xx status" =>
              ToString(probe_response.status) \in Range(probe_result.message)

\* what the except clauses do guarantee: no exception escapes, ok = TRUE
\* needs a status below 400 and a JSON object with a non-empty choices
\* value, and the four failures as the handlers class them get four
\* different messages
ProbeClassifiesByHandler ==
    Probed =>
        /\ ~probe_result.raised
        /\ probe_result.ok =>
              /\ probe_response.net = "ok" /\ ~raise_for_status(probe_response)
              /\ probe_response.body.json = "object"
              /\ probe_response.body.choices.len > 0
        /\ HandlerClass(probe_response) # "other" =>
              /\ ~probe_result.ok
              /\ \A other \in ProbeResponses :
                    HandlerClass(other) \notin {"other", HandlerClass(probe_response)}
                        => test_api_connection(other).message # probe_result.message
        /\ HandlerClass(probe_response) = "refused status" =>
              ToString(probe_response.status) \in Range(probe_result.message)

\* a timeout while connecting is answered with the connection failure's
\* message
ProbeConnectTimeoutShown ==
    /\ Probed
    /\ probe_response.net = "ConnectTimeout"
    /\ probe_result.message = ProbeNoConnect

(***************************************************************************)
(* The pipeline run: the requests of one snippet.                          *)
(***************************************************************************)
\* snippet i is waiting for a worker or being processed by one
Pending(i) == i \in Range(queue) \/ \E w \in 1..MaxWorkers : threads[w].idx = i

\* C13: for each snippet process_snippet sends at most two completion
\* requests and never repeats a failed one: the first is the instruction
\* request, the input request is there only when the instruction request
\* has returned successfully, and a failed request is the snippet's last,
\* its processing being over.
C13_AtMostTwoRequestsNoRetry ==
    \A i \in DOMAIN calls :
        /\ Len(calls[i]) <= 2
        /\ Len(calls[i]) >= 1 => calls[i][1].which = "instruction"
        /\ Len(calls[i]) = 2 =>
              /\ calls[i][2].which = "input"
              /\ calls[i][1].status = "ok"
        /\ \A k \in 1..Len(calls[i]) :
              calls[i][k].status = "failed" => k = Len(calls[i]) /\ ~Pending(i)

\* a finished run in which one snippet's instruction request failed and
\* another's input request failed
C13_Witness ==
    /\ pc = "done"
    /\ \E i, j \in DOMAIN calls :
          /\ Len(calls[i]) = 1 /\ calls[i][1] = [which |-> "instruction", status |-> "failed",
                                                  exc |-> calls[i][1].exc]
          /\ Len(calls[j]) = 2 /\ calls[j][2].which = "input" /\ calls[j][2].status = "failed"

(***************************************************************************)
(* Completion client: a stream that ends without [DONE].                   *)
(***************************************************************************)
\* the stream ends, the connection is not reset, and no 'data: ' line of it
\* carries [DONE]
Unterminated(ls) ==
    /\ FirstDone(ls) = Len(ls) + 1
    /\ \A k \in 1..Len(ls) : ls[k].kind # "reset"

\* every chunk of the stream is a JSON object with choices
ChunksWellFormed(ls) ==
    \A k \in 1..Len(ls) : ls[k].kind \notin {"malformed", "nochoices"}

\* the same stream with a final 'data: [DONE]' line
Terminated(resp) == [net |-> resp.net, lines |-> Append(resp.lines, DoneLine)]

\* C14: a response stream that ends without ever delivering a
\* 'data: [DONE]' line is treated as a complete one: the call ends as it
\* would with [DONE] at the end, it returns whenever the chunks are well
\* formed, and what it returns is the trimmed text of all the fragments
\* accumulated, possibly empty.
C14_StreamWithoutDoneIsSuccess ==
    (pc # "start" /\ response.net = "ok" /\ Unterminated(response.lines)) =>
        /\ completion = stream_llm_response(impl, Terminated(response))
        /\ ChunksWellFormed(response.lines) => pc = "returned" /\ completion.ok
        /\ completion.ok =>
              IsTrimOf(completion.val,
                       ConcatContributions(response.lines, Len(response.lines),
                                           Len(response.lines) + 1))

\* fragments arrive and the stream ends with no [DONE]: the call returns them
C14_Witness ==
    /\ pc = "returned"
    /\ Unterminated(response.lines)
    /\ Len(response.lines) >= 2
    /\ response.lines[1] = ChunkLine(<<"a">>)
    /\ response.lines[Len(response.lines)] = ChunkLine(<<"b">>)
    /\ completion.ok /\ Len(completion.val) >= 2

\* a stream with no text and no [DONE] returns the empty text
C14_WitnessEmpty ==
    /\ pc = "returned"
    /\ Unterminated(response.lines)
    /\ response.lines # <<>>
    /\ completion = Ok(<<>>)

\* in a run of the UI a record is collected whose input is the text of a
\* stream that ended without [DONE]
C14_RecordFromPartialText ==
    /\ impl = "app"
    /\ Unterminated(MalformedResponse.lines)
    /\ \E k \in 1..Len(training_data) :
          training_data[k].rec.input = stream_llm_response("utils", MalformedResponse).val

====
